---- MODULE Spec2Model ----
(***************************************************************************)
(* Identity and tenant provisioning of the marketplace backend:            *)
(* AuthController / AuthService (registerCustomer, registerStoreOwner,     *)
(* completeOnboarding, login, validateToken, checkStoreNameAvailability),  *)
(* authMiddleware, and StoresController / StoresService (createStore,      *)
(* getStoreById, updateStore, toggleHolidayMode, deleteStore), running as  *)
(* concurrent request handlers over one relational store.  Every `await`   *)
(* of a handler that touches the store is one atomic step; the             *)
(* synchronous code around it belongs to the same step.                    *)
(***************************************************************************)
EXTENDS Integers, Sequences, FiniteSets, Bags, TLC

VARIABLES
    users,   \* table "users": sequence of rows, the row's id is its index
    stores,  \* table "stores": sequence of rows, the row's id is its index
    audit,   \* table "audit_logs": the bag of the events appended
    req,     \* per handler slot: the request being served
    pc,      \* per handler slot: position of the handler
    loc,     \* per handler slot: the handler's local variables
    resp,    \* per handler slot: the HTTP response sent
    nreq     \* number of requests received so far

vars == <<users, stores, audit, req, pc, loc, resp, nreq>>

----------------------------------------------------------------------------
(* Bounds *)

\* total number of requests received in one behaviour
MaxRequests == 2

\* the same where a store name is checked, taken and asked for again
MaxNameRequests == 3

\* concurrent request handlers
Slots == {1, 2}

----------------------------------------------------------------------------
(* Values *)

None == "none"
\* a nullable id column that is NULL
NoId == 0

\* an id that is the key of no row (a well-formed uuid unknown to the store)
UnknownId == MaxRequests + 1

\* characters of the inputs; strings are sequences of characters
UpperChars == {"A", "C", "M"}
Alnum == {"a", "b", "c", "j", "m", "x"} \cup UpperChars
Spaces == {" "}
Digits == {"0", "1", "2", "3", "4", "5", "6", "7", "8", "9"}

\* the string of n characters ch
Rep(ch, n) == [i \in 1..n |-> ch]

\* String.prototype.toLowerCase on one character
LowerChar(ch) ==
    CASE ch = "A" -> "a"
      [] ch = "C" -> "c"
      [] ch = "M" -> "m"
      [] OTHER -> ch

\* the same with the lowercasing forgotten
ToLowerCaseIdentity(str) == str

\* String.prototype.toLowerCase
ToLowerCase(str) == [i \in 1..Len(str) |-> LowerChar(str[i])]

IsLowerCase(str) == \A i \in 1..Len(str) : str[i] \notin UpperChars

\* the e-mail addresses of the requests: two that differ in case only, one other
Emails == { <<"A", "x">>, <<"a", "x">>, <<"b", "x">> }

\* the store names of the requests: two that derive one slug, one other
StoreNames == { <<"C", " ", "M">>, <<"c", "'", " ", " ", "m">>, <<"j">> }

\* the names sent to /store/register and those sent to /complete-onboarding
RegisterNames == { <<"C", " ", "M">>, <<"j">> }
OnboardingNames == { <<"c", "'", " ", " ", "m">>, <<"j">> }

\* the e-mail addresses sent to /store/register
OwnerEmails == { <<"A", "x">>, <<"b", "x">> }

----------------------------------------------------------------------------
(* utils/slug: createSlug *)

RECURSIVE StripChars(_)
\* drop every character that is not alphanumeric, whitespace or a hyphen
StripChars(str) ==
    IF str = <<>> THEN <<>>
    ELSE IF Head(str) \in Alnum \cup Spaces \cup {"-"}
         THEN <<Head(str)>> \o StripChars(Tail(str))
         ELSE StripChars(Tail(str))

RECURSIVE FoldSeparators(_)
\* whitespace and hyphens become "-", a run of them a single "-"
FoldSeparators(str) ==
    IF str = <<>> THEN <<>>
    ELSE LET rest == FoldSeparators(Tail(str))
         IN  IF Head(str) \in Spaces \cup {"-"}
             THEN IF rest # <<>> /\ Head(rest) = "-" THEN rest ELSE <<"-">> \o rest
             ELSE <<Head(str)>> \o rest

\* remove a leading and a trailing separator
TrimSeparators(str) ==
    LET a == IF str # <<>> /\ Head(str) = "-" THEN Tail(str) ELSE str
    IN  IF a # <<>> /\ a[Len(a)] = "-" THEN SubSeq(a, 1, Len(a) - 1) ELSE a

createSlug(name) == TrimSeparators(FoldSeparators(StripChars(ToLowerCase(name))))

----------------------------------------------------------------------------
(* Rows *)

CUSTOMER == "customer"
STORE_OWNER == "store_owner"

\* the timestamp columns: only set or not set matters
Now == "now"

\* new Date(text) of a text that is no date (or of undefined)
InvalidDate == "Invalid Date"

\* new Date(text): the date the text denotes
NewDate(text) == IF text = "" THEN InvalidDate ELSE text

\* the six named documents of Store.documentVerificationStatus
DocKinds == {"registrationCertificate", "sirenCertificate", "taxCertificate",
             "identityDocument", "proofOfAddress", "bankDetails"}

AllPending == [k \in DocKinds |-> "pending"]

\* stores.slug IS NULL
NullSlug == <<"<null>">>

\* countrySpecificFields with no identifier: an identifier that is absent, or
\* the empty string, is the empty sequence (both are falsy)
NoFields == [siren |-> <<>>, siret |-> <<>>, frenchBusinessType |-> <<>>, ein |-> <<>>]

NoAddress == [street |-> <<>>, city |-> <<>>, postalCode |-> <<>>, country |-> <<>>]

\* column defaults of the User entity
UserDefaults ==
    [ email |-> <<>>, hasPassword |-> FALSE, role |-> CUSTOMER, type |-> "local",
      isActive |-> TRUE, isFullyRegistered |-> TRUE,
      ownerPhone |-> None, businessAddress |-> NoAddress,
      countrySpecificFields |-> NoFields,
      acceptedTerms |-> FALSE, termsAcceptedAt |-> None,
      acceptedPrivacyPolicy |-> FALSE, privacyPolicyAcceptedAt |-> None,
      acceptedDataProcessing |-> FALSE, dataProcessingAcceptedAt |-> None,
      marketingConsent |-> FALSE, marketingConsentGivenAt |-> None,
      lastLoginAt |-> None ]

\* column defaults of the Store entity
StoreDefaults ==
    [ ownerId |-> NoId, name |-> <<>>, slug |-> NullSlug,
      address |-> None, phone |-> None,
      isHoliday |-> FALSE, holidayMessage |-> None, isActive |-> TRUE,
      legalAddress |-> NoAddress, countrySpecificFields |-> NoFields,
      documentVerificationStatus |-> [k \in {} |-> "pending"],
      isLegallyVerified |-> FALSE ]

UserIds == 1..Len(users)
StoreIds == 1..Len(stores)

\* userRepository.findOne({ where: { email } }): the id of the row, or NoId
FindUserByEmail(email) ==
    IF \E i \in UserIds : users[i].email = email
    THEN CHOOSE i \in UserIds : users[i].email = email
    ELSE NoId

\* unique index on users.email
EmailIndexAllows(email) == \A i \in UserIds : users[i].email # email

\* a users table without the unique index
EmailIndexMissing(email) == TRUE

\* unique index on stores.slug (NULLs never collide)
SlugIndexAllows(slug) ==
    slug = NullSlug \/ \A i \in StoreIds : stores[i].slug # slug

\* foreign key stores.ownerId -> users.id
OwnerKeyAllows(ownerId) == ownerId = NoId \/ ownerId \in UserIds

----------------------------------------------------------------------------
(* Errors and responses *)

EmailRegistered == "Email already registered"
Underage == "You must be at least 18 years old to register"
UserNotFound == "User not found"
DuplicateEmail == "duplicate key value violates unique constraint on users.email"
DuplicateSlug == "duplicate key value violates unique constraint on stores.slug"
OwnerKeyViolation == "insert on stores violates foreign key constraint on ownerId"
AuditWriteFailed == "audit log write failed"
InvalidTimestamp == "invalid input syntax for type timestamp"

NoToken == [userId |-> NoId, email |-> <<>>, role |-> None]
NoResp == [status |-> 0, message |-> None, param |-> None, token |-> NoToken]

\* jwt.sign of { userId, email, role }
generateToken(id, row) == [userId |-> id, email |-> row.email, role |-> row.role]

Reply(status, message) ==
    [status |-> status, message |-> message, param |-> None, token |-> NoToken]

\* res.status(400).json({ message: "Validation failed", errors: [{ msg, param }] })
ValidationFailed(param) ==
    [status |-> 400, message |-> "Validation failed", param |-> param, token |-> NoToken]

\* res.status(201).json({ message: "Registration successful", token, ... })
Registered(token) ==
    [status |-> 201, message |-> "Registration successful", param |-> None, token |-> token]

\* catch block of customerRegister and storeOwnerRegister
RegisterCatch(message) ==
    Reply(IF message = EmailRegistered THEN 409 ELSE 500, message)

\* catch block of AuthController.completeOnboarding
OnboardingCatch(message) == Reply(500, message)

\* catch block of StoresController.createStore
CreateStoreCatch(message) == Reply(500, "Failed to create store")

----------------------------------------------------------------------------
(* Requests *)

\* new Date().getFullYear()
CurrentYear == 2025

\* minimum age of a store owner
MinAge == 18

GoodAddress == [street |-> <<"a">>, city |-> <<"b">>, postalCode |-> <<"x">>,
                country |-> <<"C", "A">>]

CustomerRegisterRequests ==
    { [op |-> "registerCustomer", email |-> e] : e \in Emails }

ValidStoreOwnerRequest(e, n, m) ==
    [ op |-> "registerStoreOwner", email |-> e, storeName |-> n,
      businessAddress |-> GoodAddress, ownerPhone |-> "0102",
      birthYear |-> CurrentYear - MinAge,
      acceptedTerms |-> TRUE, acceptedPrivacyPolicy |-> TRUE,
      acceptedDataProcessing |-> TRUE, marketingConsent |-> m,
      countrySpecificFields |-> NoFields ]

\* requests the controller has to refuse
InvalidStoreOwnerRequests ==
    LET base == ValidStoreOwnerRequest(<<"b", "x">>, <<"j">>, FALSE)
    IN  { [base EXCEPT !.businessAddress.street = <<" ">>],
          [base EXCEPT !.businessAddress.country = <<"c", "a">>],
          [base EXCEPT !.birthYear = CurrentYear - MinAge + 1],
          [base EXCEPT !.acceptedTerms = FALSE],
          [base EXCEPT !.acceptedPrivacyPolicy = FALSE],
          [base EXCEPT !.acceptedDataProcessing = FALSE] }

StoreOwnerRegisterRequests ==
    { ValidStoreOwnerRequest(e, n, FALSE) : e \in OwnerEmails, n \in RegisterNames }
        \cup { ValidStoreOwnerRequest(<<"b", "x">>, <<"j">>, TRUE) }
        \cup InvalidStoreOwnerRequests

ValidOnboardingRequest(u, n) ==
    [ op |-> "completeOnboarding", userId |-> u, phoneNumber |-> "0102",
      storeName |-> n, siret |-> Rep("1", 14), storeAddress |-> GoodAddress,
      acceptedCGU |-> TRUE, acceptedCGUAt |-> "2025-01-01T00:00:00Z" ]

\* the bearer token of a request was issued for a principal of the directory,
\* or it carries the id of a principal the directory does not hold
OnboardingRequests ==
    { ValidOnboardingRequest(u, n) : u \in UserIds, n \in OnboardingNames }
        \cup { [ValidOnboardingRequest(u, <<"j">>) EXCEPT !.acceptedCGU = FALSE] : u \in UserIds }
        \cup { [ValidOnboardingRequest(u, <<"j">>) EXCEPT !.siret = <<>>] : u \in UserIds }
        \cup { [ValidOnboardingRequest(u, <<"j">>) EXCEPT !.acceptedCGUAt = ""] : u \in UserIds }
        \cup { ValidOnboardingRequest(UnknownId, <<"j">>) }

CreateStoreRequests ==
    { [op |-> "createStore", name |-> <<"j">>, ownerId |-> u] : u \in UserIds \cup {UnknownId} }

Requests ==
    CustomerRegisterRequests \cup StoreOwnerRegisterRequests
        \cup OnboardingRequests \cup CreateStoreRequests

NoReq == [op |-> None]

\* the local variables of a handler, before it runs
InitLoc ==
    [ savedUser |-> NoId,    \* savedUser.id
      savedStore |-> NoId,   \* savedStore.id
      user |-> UserDefaults, \* the entity findOne returned
      auditIdx |-> 0,        \* audit writes done
      insU |-> 0,            \* rows this call has inserted into users
      insS |-> 0,            \* rows this call has inserted into stores
      tx |-> "none",         \* createStore's queryRunner transaction
      commits |-> 0,         \* commitTransaction calls of the handler
      rollbacks |-> 0,       \* rollbackTransaction calls of the handler
      releases |-> 0,        \* queryRunner.release calls of the handler
      store |-> StoreDefaults, \* the store entity findOne returned
      next |-> FALSE,        \* authMiddleware has called next()
      userId |-> NoId,       \* req.userId set by authMiddleware
      available |-> FALSE,   \* checkStoreNameAvailability: result.available
      slug |-> NullSlug ]    \* checkStoreNameAvailability: result.slug

----------------------------------------------------------------------------
(* Request arrival *)

Init ==
    /\ users = <<>>
    /\ stores = <<>>
    /\ audit = EmptyBag
    /\ req = [s \in Slots |-> NoReq]
    /\ pc = [s \in Slots |-> "idle"]
    /\ loc = [s \in Slots |-> InitLoc]
    /\ resp = [s \in Slots |-> NoResp]
    /\ nreq = 0

FirstStep(op) ==
    CASE op = "registerCustomer" -> "rc_find"
      [] op = "registerStoreOwner" -> "rso_find"
      [] op = "completeOnboarding" -> "co_auth"
      [] op = "createStore" -> "cs_begin"
      [] op = "updateStore" -> "us_find"
      [] op = "toggleHolidayMode" -> "th_find"
      [] op = "deleteStore" -> "ds_find"
      [] op = "me" -> "am_verify"
      [] op = "validateToken" -> "vt_verify"
      [] op = "login" -> "l_find"
      [] op = "getStoreById" -> "gs_find"
      [] op = "checkStoreName" -> "cn_find"

\* a request of the set R goes to the first handler slot that is free, until
\* max requests have been received
ReceiveUpTo(s, R, max) ==
    /\ pc[s] \in {"idle", "done"}
    /\ \A t \in Slots : t < s => pc[t] \notin {"idle", "done"}
    /\ nreq < max
    /\ \E r \in R :
        /\ req' = [req EXCEPT ![s] = r]
        /\ pc' = [pc EXCEPT ![s] = FirstStep(r.op)]
    /\ loc' = [loc EXCEPT ![s] = InitLoc]
    /\ resp' = [resp EXCEPT ![s] = NoResp]
    /\ nreq' = nreq + 1
    /\ UNCHANGED <<users, stores, audit>>

ReceiveFrom(s, R) == ReceiveUpTo(s, R, MaxRequests)

\* the routes of the registration and onboarding flows
Receive(s) == ReceiveFrom(s, Requests)

\* the handler of slot s answers and ends
Finish(s, r) ==
    /\ pc' = [pc EXCEPT ![s] = "done"]
    /\ resp' = [resp EXCEPT ![s] = r]

Goto(s, label) ==
    /\ pc' = [pc EXCEPT ![s] = label]
    /\ UNCHANGED resp

----------------------------------------------------------------------------
(* AuthService.registerCustomer, called by AuthController.customerRegister *)

NewCustomer(r) ==
    [ UserDefaults EXCEPT !.email = ToLowerCase(r.email), !.hasPassword = TRUE,
                          !.role = CUSTOMER, !.type = "local" ]

\* findOne by the lowercased e-mail; "Email already registered" if there is a row
RegisterCustomerFind(s) ==
    /\ pc[s] = "rc_find"
    /\ IF FindUserByEmail(ToLowerCase(req[s].email)) # NoId
       THEN Finish(s, RegisterCatch(EmailRegistered))
       ELSE Goto(s, "rc_save")
    /\ UNCHANGED <<users, stores, audit, req, loc, nreq>>

\* bcrypt.hash, userRepository.save, generateToken, 201
RegisterCustomerSave(s) ==
    /\ pc[s] = "rc_save"
    /\ LET row == NewCustomer(req[s])
           id == Len(users) + 1
       IN  IF EmailIndexAllows(row.email)
           THEN /\ users' = Append(users, row)
                /\ loc' = [loc EXCEPT ![s].savedUser = id, ![s].insU = @ + 1]
                /\ Finish(s, Registered(generateToken(id, row)))
           ELSE /\ Finish(s, RegisterCatch(DuplicateEmail))
                /\ UNCHANGED <<users, loc>>
    /\ UNCHANGED <<stores, audit, req, nreq>>

----------------------------------------------------------------------------
(* AuthController.storeOwnerRegister and AuthService.registerStoreOwner *)

\* !field || field.trim().length === 0
IsBlank(str) == \A i \in 1..Len(str) : str[i] \in Spaces

\* a country code of any two characters
IsCountryCodeAnyCase(str) == Len(str) = 2

\* country.length === 2 && /^[A-Z]{2}$/.test(country)
IsCountryCode(str) == Len(str) = 2 /\ \A i \in 1..Len(str) : str[i] \in UpperChars

\* currentYear - birthYear
AgeOf(r) == CurrentYear - r.birthYear

\* age < 18 with the boundary on the wrong side
ControllerRejectsAgeInclusive(r) == AgeOf(r) <= MinAge

\* the controller's age check
ControllerRejectsAge(r) == AgeOf(r) < MinAge

\* the service's age check
ServiceRejectsAge(r) == CurrentYear - r.birthYear < MinAge

\* /^\d{n}$/.test(str)
IsDigits(str, n) == Len(str) = n /\ \A i \in 1..Len(str) : str[i] \in Digits

\* /^\d{2}-\d{7}$/.test(str)
IsEin(str) ==
    /\ Len(str) = 10
    /\ \A i \in 1..Len(str) : IF i = 3 THEN str[i] = "-" ELSE str[i] \in Digits

FrenchBusinessTypes ==
    { <<"a", "u", "t", "o", "_", "e", "n", "t", "r", "e", "p", "r", "e", "n", "e", "u", "r">>,
      <<"e", "u", "r", "l">>, <<"s", "a", "r", "l">>, <<"s", "a", "s">>,
      <<"s", "a", "s", "u">>, <<"s", "a">> }

\* the checks of countrySpecificFields, in order: the failing parameter, or "ok"
CountryFieldsValidation(f) ==
    IF f.siren # <<>> /\ ~IsDigits(f.siren, 9) THEN "countrySpecificFields.siren"
    ELSE IF f.siret # <<>> /\ ~IsDigits(f.siret, 14) THEN "countrySpecificFields.siret"
    ELSE IF f.frenchBusinessType # <<>> /\ f.frenchBusinessType \notin FrenchBusinessTypes
    THEN "countrySpecificFields.frenchBusinessType"
    ELSE IF f.ein # <<>> /\ ~IsEin(f.ein) THEN "countrySpecificFields.ein"
    ELSE "ok"

\* the checks with the data-processing consent not looked at
StoreOwnerValidationTwoConsents(r) ==
    IF IsBlank(r.businessAddress.street) THEN "businessAddress.street"
    ELSE IF IsBlank(r.businessAddress.city) THEN "businessAddress.city"
    ELSE IF IsBlank(r.businessAddress.postalCode) THEN "businessAddress.postalCode"
    ELSE IF ~IsCountryCode(r.businessAddress.country) THEN "businessAddress.country"
    ELSE IF ControllerRejectsAge(r) THEN "ownerDateOfBirth"
    ELSE IF r.acceptedTerms # TRUE THEN "acceptedTerms"
    ELSE IF r.acceptedPrivacyPolicy # TRUE THEN "acceptedPrivacyPolicy"
    ELSE CountryFieldsValidation(r.countrySpecificFields)

\* the controller's checks, in order: the failing parameter, or "ok"
StoreOwnerValidation(r) ==
    IF IsBlank(r.businessAddress.street) THEN "businessAddress.street"
    ELSE IF IsBlank(r.businessAddress.city) THEN "businessAddress.city"
    ELSE IF IsBlank(r.businessAddress.postalCode) THEN "businessAddress.postalCode"
    ELSE IF ~IsCountryCode(r.businessAddress.country) THEN "businessAddress.country"
    ELSE IF ControllerRejectsAge(r) THEN "ownerDateOfBirth"
    ELSE IF r.acceptedTerms # TRUE THEN "acceptedTerms"
    ELSE IF r.acceptedPrivacyPolicy # TRUE THEN "acceptedPrivacyPolicy"
    ELSE IF r.acceptedDataProcessing # TRUE THEN "acceptedDataProcessing"
    ELSE CountryFieldsValidation(r.countrySpecificFields)

\* the same with the marketing timestamp taken whatever the flag
NewStoreOwnerAlwaysStamped(r) ==
    [ UserDefaults EXCEPT
        !.email = ToLowerCase(r.email), !.hasPassword = TRUE,
        !.role = STORE_OWNER, !.type = "local",
        !.businessAddress = r.businessAddress, !.ownerPhone = r.ownerPhone,
        !.countrySpecificFields = r.countrySpecificFields,
        !.acceptedTerms = r.acceptedTerms,
        !.acceptedPrivacyPolicy = r.acceptedPrivacyPolicy,
        !.acceptedDataProcessing = r.acceptedDataProcessing,
        !.marketingConsent = r.marketingConsent,
        !.termsAcceptedAt = IF r.acceptedTerms THEN Now ELSE None,
        !.privacyPolicyAcceptedAt = IF r.acceptedPrivacyPolicy THEN Now ELSE None,
        !.dataProcessingAcceptedAt = IF r.acceptedDataProcessing THEN Now ELSE None,
        !.marketingConsentGivenAt = Now,
        !.isFullyRegistered = FALSE ]

\* userRepository.create({...}) of registerStoreOwner
NewStoreOwner(r) ==
    [ UserDefaults EXCEPT
        !.email = ToLowerCase(r.email), !.hasPassword = TRUE,
        !.role = STORE_OWNER, !.type = "local",
        !.businessAddress = r.businessAddress, !.ownerPhone = r.ownerPhone,
        !.countrySpecificFields = r.countrySpecificFields,
        !.acceptedTerms = r.acceptedTerms,
        !.acceptedPrivacyPolicy = r.acceptedPrivacyPolicy,
        !.acceptedDataProcessing = r.acceptedDataProcessing,
        !.marketingConsent = r.marketingConsent,
        !.termsAcceptedAt = IF r.acceptedTerms THEN Now ELSE None,
        !.privacyPolicyAcceptedAt = IF r.acceptedPrivacyPolicy THEN Now ELSE None,
        !.dataProcessingAcceptedAt = IF r.acceptedDataProcessing THEN Now ELSE None,
        !.marketingConsentGivenAt = IF r.marketingConsent THEN Now ELSE None,
        !.isFullyRegistered = FALSE ]

\* a store row whose owner is not the saved principal
RegisteredStoreNoOwner(r, ownerId) ==
    [ StoreDefaults EXCEPT
        !.name = r.storeName, !.slug = createSlug(r.storeName),
        !.legalAddress = r.businessAddress,
        !.countrySpecificFields = r.countrySpecificFields,
        !.documentVerificationStatus = AllPending ]

\* storeRepository.create({...}) of registerStoreOwner
RegisteredStore(r, ownerId) ==
    [ StoreDefaults EXCEPT
        !.ownerId = ownerId, !.name = r.storeName, !.slug = createSlug(r.storeName),
        !.legalAddress = r.businessAddress,
        !.countrySpecificFields = r.countrySpecificFields,
        !.documentVerificationStatus = AllPending ]

ConsentEvent(userId, consent) ==
    [kind |-> "consent", subject |-> userId, consent |-> consent]

ConsentEvents(r, userId) ==
    (IF r.acceptedTerms THEN <<ConsentEvent(userId, "terms")>> ELSE <<>>)
    \o (IF r.acceptedPrivacyPolicy THEN <<ConsentEvent(userId, "privacy")>> ELSE <<>>)
    \o (IF r.acceptedDataProcessing THEN <<ConsentEvent(userId, "data_processing")>> ELSE <<>>)
    \o (IF r.marketingConsent THEN <<ConsentEvent(userId, "marketing")>> ELSE <<>>)

\* the audit writes with the marketing consent logged whatever its flag
AuditCallsAlwaysMarketing(r, userId, storeId) ==
    << [kind |-> "user_registration", subject |-> userId, consent |-> None],
       [kind |-> "store_registration", subject |-> storeId, consent |-> None] >>
    \o ConsentEvents([r EXCEPT !.marketingConsent = TRUE], userId)

\* the audit writes of registerStoreOwner, in the order of the awaits
AuditCalls(r, userId, storeId) ==
    << [kind |-> "user_registration", subject |-> userId, consent |-> None],
       [kind |-> "store_registration", subject |-> storeId, consent |-> None] >>
    \o ConsentEvents(r, userId)

\* an audit write either appends its event or rejects
AuditWriteOutcomes == {"written", "failed"}

\* validation, then findOne by the lowercased e-mail, then the age check
RegisterStoreOwnerFind(s) ==
    /\ pc[s] = "rso_find"
    /\ LET r == req[s]
           v == StoreOwnerValidation(r)
       IN  IF v # "ok"
           THEN Finish(s, ValidationFailed(v))
           ELSE IF FindUserByEmail(ToLowerCase(r.email)) # NoId
           THEN Finish(s, RegisterCatch(EmailRegistered))
           ELSE IF ServiceRejectsAge(r)
           THEN Finish(s, RegisterCatch(Underage))
           ELSE Goto(s, "rso_saveUser")
    /\ UNCHANGED <<users, stores, audit, req, loc, nreq>>

\* bcrypt.hash, userRepository.save(user)
RegisterStoreOwnerSaveUser(s) ==
    /\ pc[s] = "rso_saveUser"
    /\ LET row == NewStoreOwner(req[s])
       IN  IF EmailIndexAllows(row.email)
           THEN /\ users' = Append(users, row)
                /\ loc' = [loc EXCEPT ![s].savedUser = Len(users) + 1,
                                      ![s].user = row, ![s].insU = @ + 1]
                /\ Goto(s, "rso_saveStore")
           ELSE /\ Finish(s, RegisterCatch(DuplicateEmail))
                /\ UNCHANGED <<users, loc>>
    /\ UNCHANGED <<stores, audit, req, nreq>>

\* storeRepository.save(store)
RegisterStoreOwnerSaveStore(s) ==
    /\ pc[s] = "rso_saveStore"
    /\ LET row == RegisteredStore(req[s], loc[s].savedUser)
       IN  IF ~SlugIndexAllows(row.slug)
           THEN /\ Finish(s, RegisterCatch(DuplicateSlug))
                /\ UNCHANGED <<stores, loc>>
           ELSE IF ~OwnerKeyAllows(row.ownerId)
           THEN /\ Finish(s, RegisterCatch(OwnerKeyViolation))
                /\ UNCHANGED <<stores, loc>>
           ELSE /\ stores' = Append(stores, row)
                /\ loc' = [loc EXCEPT ![s].savedStore = Len(stores) + 1,
                                      ![s].insS = @ + 1]
                /\ Goto(s, "rso_audit")
    /\ UNCHANGED <<users, audit, req, nreq>>

\* one awaited auditService call; after the last one generateToken and 201
RegisterStoreOwnerAudit(s) ==
    /\ pc[s] = "rso_audit"
    /\ LET calls == AuditCalls(req[s], loc[s].savedUser, loc[s].savedStore)
           i == loc[s].auditIdx + 1
       IN  \E outcome \in AuditWriteOutcomes :
            IF outcome = "failed"
            THEN /\ Finish(s, RegisterCatch(AuditWriteFailed))
                 /\ UNCHANGED <<audit, loc>>
            ELSE /\ audit' = audit (+) SetToBag({calls[i]})
                 /\ loc' = [loc EXCEPT ![s].auditIdx = i]
                 /\ IF i = Len(calls)
                    THEN Finish(s, Registered(generateToken(loc[s].savedUser, loc[s].user)))
                    ELSE Goto(s, "rso_audit")
    /\ UNCHANGED <<users, stores, req, nreq>>

----------------------------------------------------------------------------
(* authMiddleware, AuthController.completeOnboarding, AuthService.completeOnboarding *)

\* !phoneNumber || !storeName || !siret || !storeAddress || !acceptedCGU
MissingOnboardingFields(r) ==
    \/ r.phoneNumber = ""
    \/ r.storeName = <<>>
    \/ r.siret = <<>>
    \/ r.storeAddress = NoAddress
    \/ r.acceptedCGU # TRUE

\* the assignments to the loaded user entity, the role upgrade left out
OnboardedUserKeepsRole(user, r) ==
    [ user EXCEPT
        !.ownerPhone = r.phoneNumber,
        !.businessAddress = r.storeAddress,
        !.countrySpecificFields = [@ EXCEPT !.siret = r.siret],
        !.acceptedTerms = r.acceptedCGU,
        !.termsAcceptedAt = IF r.acceptedCGU THEN NewDate(r.acceptedCGUAt) ELSE None,
        !.acceptedPrivacyPolicy = r.acceptedCGU,
        !.privacyPolicyAcceptedAt = IF r.acceptedCGU THEN NewDate(r.acceptedCGUAt) ELSE None,
        !.acceptedDataProcessing = r.acceptedCGU,
        !.dataProcessingAcceptedAt = IF r.acceptedCGU THEN NewDate(r.acceptedCGUAt) ELSE None,
        !.isFullyRegistered = TRUE ]

\* the assignments to the loaded user entity
OnboardedUser(user, r) ==
    [ user EXCEPT
        !.ownerPhone = r.phoneNumber,
        !.businessAddress = r.storeAddress,
        !.countrySpecificFields = [@ EXCEPT !.siret = r.siret],
        !.acceptedTerms = r.acceptedCGU,
        !.termsAcceptedAt = IF r.acceptedCGU THEN NewDate(r.acceptedCGUAt) ELSE None,
        !.acceptedPrivacyPolicy = r.acceptedCGU,
        !.privacyPolicyAcceptedAt = IF r.acceptedCGU THEN NewDate(r.acceptedCGUAt) ELSE None,
        !.acceptedDataProcessing = r.acceptedCGU,
        !.dataProcessingAcceptedAt = IF r.acceptedCGU THEN NewDate(r.acceptedCGUAt) ELSE None,
        !.role = STORE_OWNER,
        !.isFullyRegistered = TRUE ]

\* storeRepository.create({...}) of completeOnboarding
OnboardedStore(r) ==
    [ StoreDefaults EXCEPT
        !.ownerId = r.userId, !.name = r.storeName, !.slug = createSlug(r.storeName),
        !.legalAddress = r.storeAddress, !.address = "street, postalCode city",
        !.phone = r.phoneNumber,
        !.countrySpecificFields = [NoFields EXCEPT !.siret = r.siret],
        !.documentVerificationStatus = AllPending ]

\* the middleware resolves the token to an active principal, the controller
\* checks the required fields
CompleteOnboardingAuth(s) ==
    /\ pc[s] = "co_auth"
    /\ LET r == req[s]
       IN  IF ~(r.userId \in UserIds /\ users[r.userId].isActive)
           THEN Finish(s, Reply(401, "Unauthorized - Invalid token"))
           ELSE IF MissingOnboardingFields(r)
           THEN Finish(s, Reply(400, "Missing required fields"))
           ELSE Goto(s, "co_find")
    /\ UNCHANGED <<users, stores, audit, req, loc, nreq>>

\* userRepository.findOne({ where: { id: userId } })
CompleteOnboardingFind(s) ==
    /\ pc[s] = "co_find"
    /\ IF req[s].userId \notin UserIds
       THEN /\ Finish(s, OnboardingCatch(UserNotFound))
            /\ UNCHANGED loc
       ELSE /\ loc' = [loc EXCEPT ![s].user = users[req[s].userId]]
            /\ Goto(s, "co_saveUser")
    /\ UNCHANGED <<users, stores, audit, req, nreq>>

\* the timestamp columns of a user entity
ConsentStamps(user) ==
    { user.termsAcceptedAt, user.privacyPolicyAcceptedAt,
      user.dataProcessingAcceptedAt, user.marketingConsentGivenAt }

\* userRepository.save(user): the row takes the values of the entity; the
\* UPDATE is refused when a timestamp parameter is no date
CompleteOnboardingSaveUser(s) ==
    /\ pc[s] = "co_saveUser"
    /\ LET entity == OnboardedUser(loc[s].user, req[s])
       IN  IF InvalidDate \in ConsentStamps(entity)
           THEN /\ Finish(s, OnboardingCatch(InvalidTimestamp))
                /\ UNCHANGED <<users, loc>>
           ELSE /\ users' = [users EXCEPT ![req[s].userId] = entity]
                /\ loc' = [loc EXCEPT ![s].savedUser = req[s].userId]
                /\ Goto(s, "co_saveStore")
    /\ UNCHANGED <<stores, audit, req, nreq>>

\* storeRepository.save(store), 200
CompleteOnboardingSaveStore(s) ==
    /\ pc[s] = "co_saveStore"
    /\ LET row == OnboardedStore(req[s])
       IN  IF ~SlugIndexAllows(row.slug)
           THEN /\ Finish(s, OnboardingCatch(DuplicateSlug))
                /\ UNCHANGED <<stores, loc>>
           ELSE IF ~OwnerKeyAllows(row.ownerId)
           THEN /\ Finish(s, OnboardingCatch(OwnerKeyViolation))
                /\ UNCHANGED <<stores, loc>>
           ELSE /\ stores' = Append(stores, row)
                /\ loc' = [loc EXCEPT ![s].savedStore = Len(stores) + 1,
                                      ![s].insS = @ + 1]
                /\ Finish(s, Reply(200, "Onboarding completed successfully"))
    /\ UNCHANGED <<users, audit, req, nreq>>

----------------------------------------------------------------------------
(* StoresController.createStore and StoresService.createStore *)

\* a store row created without the owner of the request
CreatedStoreNoOwner(r) ==
    [ StoreDefaults EXCEPT !.name = r.name, !.isActive = TRUE ]

\* storeRepository.create({ ...request, isActive: true })
CreatedStore(r) ==
    [ StoreDefaults EXCEPT !.ownerId = r.ownerId, !.name = r.name, !.isActive = TRUE ]

\* the catch block with the finally block left out: the connection is kept
RolledBackNoRelease(l) == [l EXCEPT !.tx = "rolledback", !.rollbacks = @ + 1]

\* the catch block, rollbackTransaction, then the finally block, release
RolledBack(l) ==
    [l EXCEPT !.tx = "rolledback", !.rollbacks = @ + 1, !.releases = @ + 1]

\* commitTransaction, then the finally block, release
Committed(l) ==
    [l EXCEPT !.tx = "committed", !.commits = @ + 1, !.releases = @ + 1]

\* connect, startTransaction, queryRunner.manager.save(Store, store)
CreateStoreBegin(s) ==
    /\ pc[s] = "cs_begin"
    /\ IF ~OwnerKeyAllows(req[s].ownerId)
       THEN /\ loc' = [loc EXCEPT ![s] = RolledBack(@)]
            /\ Finish(s, CreateStoreCatch(OwnerKeyViolation))
       ELSE /\ loc' = [loc EXCEPT ![s].tx = "active"]
            /\ Goto(s, "cs_find")
    /\ UNCHANGED <<users, stores, audit, req, nreq>>

\* userRepository.findOne({ where: { id: request.ownerId } })
CreateStoreFind(s) ==
    /\ pc[s] = "cs_find"
    /\ IF req[s].ownerId \notin UserIds
       THEN /\ loc' = [loc EXCEPT ![s] = RolledBack(@)]
            /\ Finish(s, CreateStoreCatch(UserNotFound))
       ELSE /\ loc' = [loc EXCEPT ![s].user = users[req[s].ownerId]]
            /\ Goto(s, "cs_commit")
    /\ UNCHANGED <<users, stores, audit, req, nreq>>

\* queryRunner.manager.save(User, user), commitTransaction, release, 201:
\* the store insert and the user update become visible together
CreateStoreCommit(s) ==
    /\ pc[s] = "cs_commit"
    /\ users' = [users EXCEPT ![req[s].ownerId] =
                    [loc[s].user EXCEPT !.isFullyRegistered = TRUE]]
    /\ stores' = Append(stores, CreatedStore(req[s]))
    /\ loc' = [loc EXCEPT ![s] = [Committed(@) EXCEPT
                    !.savedUser = req[s].ownerId,
                    !.savedStore = Len(stores) + 1, !.insS = @ + 1]]
    /\ Finish(s, Reply(201, "Store created successfully"))
    /\ UNCHANGED <<audit, req, nreq>>

----------------------------------------------------------------------------

Next ==
    \E s \in Slots :
        \/ Receive(s)
        \/ RegisterCustomerFind(s)
        \/ RegisterCustomerSave(s)
        \/ RegisterStoreOwnerFind(s)
        \/ RegisterStoreOwnerSaveUser(s)
        \/ RegisterStoreOwnerSaveStore(s)
        \/ RegisterStoreOwnerAudit(s)
        \/ CompleteOnboardingAuth(s)
        \/ CompleteOnboardingFind(s)
        \/ CompleteOnboardingSaveUser(s)
        \/ CompleteOnboardingSaveStore(s)
        \/ CreateStoreBegin(s)
        \/ CreateStoreFind(s)
        \/ CreateStoreCommit(s)

Spec == Init /\ [][Next]_vars

----------------------------------------------------------------------------
(* StoresController / StoresService: updateStore, toggleHolidayMode, deleteStore *)

StoreNotFound == "Store not found"

\* a key the request body does not have
Absent == <<"<absent>">>

\* a store id that is the key of no row
UnknownStoreId == MaxRequests + 1

\* bodies of PUT /api/stores/:id: the validators look at the keys they know and
\* leave every other key of the body in place
UpdateBodies ==
    { [name |-> <<"m">>, slug |-> Absent],
      [name |-> Absent, slug |-> <<"m">>],
      [name |-> Absent, slug |-> <<"j">>] }

UpdateStoreRequests ==
    { [op |-> "updateStore", id |-> i, body |-> b] :
        i \in StoreIds \cup {UnknownStoreId}, b \in UpdateBodies }

ToggleHolidayRequests ==
    { [op |-> "toggleHolidayMode", id |-> i, holidayMessage |-> m] :
        i \in StoreIds \cup {UnknownStoreId}, m \in {None, "closed"} }

DeleteStoreRequests ==
    { [op |-> "deleteStore", id |-> i] : i \in StoreIds \cup {UnknownStoreId} }

\* the registrations that create the stores
StoreCreatingRequests ==
    { ValidStoreOwnerRequest(e, n, FALSE) : e \in OwnerEmails, n \in RegisterNames }

StoreRequests ==
    StoreCreatingRequests \cup UpdateStoreRequests \cup ToggleHolidayRequests
        \cup DeleteStoreRequests

ReceiveStoreRequest(s) == ReceiveFrom(s, StoreRequests)

\* storeRepository.findOne({ where: { id, isActive: true } }) of the three
\* operations; "Store not found" is answered 404
FindActiveStore(s, here, next) ==
    /\ pc[s] = here
    /\ IF req[s].id \in StoreIds /\ stores[req[s].id].isActive
       THEN /\ loc' = [loc EXCEPT ![s].store = stores[req[s].id]]
            /\ Goto(s, next)
       ELSE /\ Finish(s, Reply(404, StoreNotFound))
            /\ UNCHANGED loc
    /\ UNCHANGED <<users, stores, audit, req, nreq>>

\* storeRepository.save(store) of a loaded entity: the row takes the values of
\* the entity, unless the unique index on slug refuses them
SaveStore(s, entity, ok, failed) ==
    IF \E i \in StoreIds :
          i # req[s].id /\ entity.slug # NullSlug /\ stores[i].slug = entity.slug
    THEN /\ Finish(s, Reply(500, failed))
         /\ UNCHANGED stores
    ELSE /\ stores' = [stores EXCEPT ![req[s].id] = entity]
         /\ Finish(s, Reply(200, ok))

\* Object.assign(store, request): every key of the body is copied
ObjectAssign(store, body) ==
    [ store EXCEPT !.name = IF body.name = Absent THEN @ ELSE body.name,
                   !.slug = IF body.slug = Absent THEN @ ELSE body.slug ]

UpdateStoreFind(s) == FindActiveStore(s, "us_find", "us_save")

UpdateStoreSave(s) ==
    /\ pc[s] = "us_save"
    /\ SaveStore(s, ObjectAssign(loc[s].store, req[s].body),
                 "Store updated successfully", "Failed to update store")
    /\ UNCHANGED <<users, audit, req, loc, nreq>>

\* store.isHoliday = !store.isHoliday; holidayMessage = isHoliday ? message :
\* undefined, and save leaves the column of an undefined property as it is
ToggledStore(store, row, message) ==
    [ store EXCEPT
        !.isHoliday = ~store.isHoliday,
        !.holidayMessage = IF ~store.isHoliday /\ message # None
                           THEN message ELSE row.holidayMessage ]

ToggleHolidayFind(s) == FindActiveStore(s, "th_find", "th_save")

ToggleHolidaySave(s) ==
    /\ pc[s] = "th_save"
    /\ SaveStore(s, ToggledStore(loc[s].store, stores[req[s].id], req[s].holidayMessage),
                 IF loc[s].store.isHoliday THEN "Holiday mode disabled successfully"
                                           ELSE "Holiday mode enabled successfully",
                 "Failed to toggle holiday mode")
    /\ UNCHANGED <<users, audit, req, loc, nreq>>

DeleteStoreFind(s) == FindActiveStore(s, "ds_find", "ds_save")

\* store.isActive = false; storeRepository.save(store)
DeleteStoreSave(s) ==
    /\ pc[s] = "ds_save"
    /\ SaveStore(s, [loc[s].store EXCEPT !.isActive = FALSE],
                 "Store deleted successfully", "Failed to delete store")
    /\ UNCHANGED <<users, audit, req, loc, nreq>>

StoreNext ==
    \E s \in Slots :
        \/ ReceiveStoreRequest(s)
        \/ RegisterStoreOwnerFind(s)
        \/ RegisterStoreOwnerSaveUser(s)
        \/ RegisterStoreOwnerSaveStore(s)
        \/ RegisterStoreOwnerAudit(s)
        \/ UpdateStoreFind(s)
        \/ UpdateStoreSave(s)
        \/ ToggleHolidayFind(s)
        \/ ToggleHolidaySave(s)
        \/ DeleteStoreFind(s)
        \/ DeleteStoreSave(s)

StoreSpec == Init /\ [][StoreNext]_vars

----------------------------------------------------------------------------
(* The operations of StoresService on a store that is already registered *)

\* the registration that has been served before the first request
SeedRequest == ValidStoreOwnerRequest(<<"b", "x">>, <<"j">>, FALSE)

\* the directory after registerStoreOwner(SeedRequest) has answered 201
StoreOpsInit ==
    /\ users = << NewStoreOwner(SeedRequest) >>
    /\ stores = << RegisteredStore(SeedRequest, 1) >>
    /\ audit = SetToBag({ AuditCalls(SeedRequest, 1, 1)[i] :
                            i \in 1..Len(AuditCalls(SeedRequest, 1, 1)) })
    /\ req = [s \in Slots |-> NoReq]
    /\ pc = [s \in Slots |-> "idle"]
    /\ loc = [s \in Slots |-> InitLoc]
    /\ resp = [s \in Slots |-> NoResp]
    /\ nreq = 0

GetStoreRequests ==
    { [op |-> "getStoreById", id |-> i] : i \in StoreIds \cup {UnknownStoreId} }

StoreOpsRequests ==
    GetStoreRequests \cup UpdateStoreRequests \cup ToggleHolidayRequests
        \cup DeleteStoreRequests

ReceiveStoreOp(s) == ReceiveFrom(s, StoreOpsRequests)

\* findOne({ where: { id, isActive: true }, select }): 200 with the store, or
\* 404 "Store not found"
GetStoreById(s) ==
    /\ pc[s] = "gs_find"
    /\ IF req[s].id \in StoreIds /\ stores[req[s].id].isActive
       THEN /\ loc' = [loc EXCEPT ![s].store = stores[req[s].id]]
            /\ Finish(s, Reply(200, "Store retrieved successfully"))
       ELSE /\ Finish(s, Reply(404, StoreNotFound))
            /\ UNCHANGED loc
    /\ UNCHANGED <<users, stores, audit, req, nreq>>

StoreOpsNext ==
    \E s \in Slots :
        \/ ReceiveStoreOp(s)
        \/ GetStoreById(s)
        \/ UpdateStoreFind(s)
        \/ UpdateStoreSave(s)
        \/ ToggleHolidayFind(s)
        \/ ToggleHolidaySave(s)
        \/ DeleteStoreFind(s)
        \/ DeleteStoreSave(s)

StoreOpsSpec == StoreOpsInit /\ [][StoreOpsNext]_vars

----------------------------------------------------------------------------
(* AuthController / AuthService: checkStoreNameAvailability, beside the two
   flows that create a store under a name *)

\* the storeName of the query string; the empty one is refused
CheckedNames == { <<"C", " ", "M">>, <<"c", "'", " ", " ", "m">>, <<"j">>, <<>> }

CheckNameRequests == { [op |-> "checkStoreName", storeName |-> n] : n \in CheckedNames }

NameRequests ==
    CheckNameRequests
        \cup { ValidStoreOwnerRequest(<<"b", "x">>, <<"C", " ", "M">>, FALSE),
               ValidStoreOwnerRequest(<<"A", "x">>, <<"j">>, FALSE),
               ValidOnboardingRequest(1, <<"c", "'", " ", " ", "m">>) }
        \cup { [op |-> "deleteStore", id |-> i] : i \in StoreIds }

ReceiveNameRequest(s) == ReceiveUpTo(s, NameRequests, MaxNameRequests)

\* the directory after registerCustomer(a@x) has answered 201
NameInit ==
    /\ users = << NewCustomer([email |-> <<"a", "x">>]) >>
    /\ stores = <<>>
    /\ audit = EmptyBag
    /\ req = [s \in Slots |-> NoReq]
    /\ pc = [s \in Slots |-> "idle"]
    /\ loc = [s \in Slots |-> InitLoc]
    /\ resp = [s \in Slots |-> NoResp]
    /\ nreq = 0

\* findOne by the slug among the active stores only
FindActiveStoreBySlug(slug) ==
    IF \E i \in StoreIds : stores[i].slug = slug /\ stores[i].isActive
    THEN CHOOSE i \in StoreIds : stores[i].slug = slug /\ stores[i].isActive
    ELSE NoId

\* storeRepository.findOne({ where: { slug } }): the id of the row, or NoId
FindStoreBySlug(slug) ==
    IF \E i \in StoreIds : stores[i].slug = slug
    THEN CHOOSE i \in StoreIds : stores[i].slug = slug
    ELSE NoId

\* the controller's check of the query, createSlug, findOne, 200 with
\* { available, slug }
CheckStoreNameAvailability(s) ==
    /\ pc[s] = "cn_find"
    /\ LET slug == createSlug(req[s].storeName)
       IN  IF req[s].storeName = <<>>
           THEN /\ Finish(s, Reply(400, "Store name is required"))
                /\ UNCHANGED loc
           ELSE /\ loc' = [loc EXCEPT ![s].slug = slug,
                                      ![s].available = (FindStoreBySlug(slug) = NoId)]
                /\ Finish(s, Reply(200, "Store name availability checked"))
    /\ UNCHANGED <<users, stores, audit, req, nreq>>

NameNext ==
    \E s \in Slots :
        \/ ReceiveNameRequest(s)
        \/ CheckStoreNameAvailability(s)
        \/ RegisterStoreOwnerFind(s)
        \/ RegisterStoreOwnerSaveUser(s)
        \/ RegisterStoreOwnerSaveStore(s)
        \/ RegisterStoreOwnerAudit(s)
        \/ CompleteOnboardingAuth(s)
        \/ CompleteOnboardingFind(s)
        \/ CompleteOnboardingSaveUser(s)
        \/ CompleteOnboardingSaveStore(s)
        \/ DeleteStoreFind(s)
        \/ DeleteStoreSave(s)

NameSpec == NameInit /\ [][NameNext]_vars

----------------------------------------------------------------------------
(* authMiddleware before AuthController.getCurrentUser; AuthService.validateToken *)

\* expiresIn: "7d", in days
TokenTTL == 7

\* days between jwt.sign and jwt.verify
TokenAges == {0, TokenTTL - 1, TokenTTL, TokenTTL + 1}

\* what became of the signed text: as issued, one character altered, or no
\* token at all
TokenForms == {"intact", "altered", "garbage"}

\* the Authorization header before the token: "Bearer ", another scheme, or
\* no header
Schemes == {"Bearer ", "Basic ", ""}

\* the payload of a token signed for a principal the directory does not hold
StrangerPayload == [userId |-> UnknownId, email |-> <<"b", "x">>, role |-> CUSTOMER]

\* the payloads generateToken has signed
IssuedPayloads == { generateToken(u, users[u]) : u \in UserIds } \cup {StrangerPayload}

PresentedTokens == [payload : IssuedPayloads, age : TokenAges, form : TokenForms]

MeRequests == { [op |-> "me", scheme |-> h, token |-> t] : h \in Schemes, t \in PresentedTokens }

ValidateTokenRequests == { [op |-> "validateToken", token |-> t] : t \in PresentedTokens }

AuthRequests == CustomerRegisterRequests \cup MeRequests \cup ValidateTokenRequests

ReceiveAuthRequest(s) == ReceiveFrom(s, AuthRequests)

\* the error classes of jsonwebtoken, each with the classes it extends
ErrorAncestors(class) ==
    CASE class = "TokenExpiredError" -> {"TokenExpiredError", "JsonWebTokenError", "Error"}
      [] class = "JsonWebTokenError" -> {"JsonWebTokenError", "Error"}
      [] OTHER -> {"Error"}

\* error instanceof class
InstanceOf(error, class) == class \in ErrorAncestors(error)

\* jwt.verify(token, secret): the error thrown, or None when the payload is
\* returned; the signature is checked before the expiry
JwtVerify(token) ==
    IF token.form # "intact" THEN "JsonWebTokenError"
    ELSE IF token.age >= TokenTTL THEN "TokenExpiredError"
    ELSE None

\* a header of any scheme is taken for a bearer token
HasAnyScheme(scheme) == scheme # ""

\* authHeader && authHeader.startsWith("Bearer ")
HasBearer(scheme) == scheme = "Bearer "

\* findOne by id alone
FindUserByIdAnyState(id) == IF id \in UserIds THEN id ELSE NoId

\* userRepository.findOne({ where: { id, isActive: true } }): the id, or NoId
FindActiveUserById(id) ==
    IF id \in UserIds /\ users[id].isActive THEN id ELSE NoId

\* the catch block of authMiddleware
MiddlewareCatch(error) ==
    IF InstanceOf(error, "JsonWebTokenError")
    THEN Reply(401, "Unauthorized - Invalid token")
    ELSE IF InstanceOf(error, "TokenExpiredError")
    THEN Reply(401, "Unauthorized - Token expired")
    ELSE Reply(500, "Internal server error")

\* AuthController.getCurrentUser, run by next()
GetCurrentUser(userId) ==
    IF userId = NoId THEN Reply(401, "Unauthorized")
    ELSE Reply(200, "User retrieved successfully")

\* authMiddleware and, when it calls next(), the handler behind it
AuthMiddleware(s) ==
    /\ pc[s] = "am_verify"
    /\ LET r == req[s]
           error == JwtVerify(r.token)
           id == FindActiveUserById(r.token.payload.userId)
       IN  IF ~HasBearer(r.scheme)
           THEN /\ Finish(s, Reply(401, "Unauthorized - No token provided"))
                /\ UNCHANGED loc
           ELSE IF error # None
           THEN /\ Finish(s, MiddlewareCatch(error))
                /\ UNCHANGED loc
           ELSE IF id = NoId
           THEN /\ Finish(s, Reply(401, "Unauthorized - Invalid token"))
                /\ UNCHANGED loc
           ELSE /\ loc' = [loc EXCEPT ![s].user = users[id], ![s].userId = id,
                                      ![s].next = TRUE]
                /\ Finish(s, GetCurrentUser(id))
    /\ UNCHANGED <<users, stores, audit, req, nreq>>

\* what validateToken returns: a User, or null
Resolved(id) ==
    [ status |-> 0, message |-> IF id = NoId THEN "null" ELSE "User",
      param |-> None, token |-> NoToken ]

\* AuthService.validateToken: every error of jwt.verify is caught and becomes null
ValidateToken(s) ==
    /\ pc[s] = "vt_verify"
    /\ LET id == IF JwtVerify(req[s].token) # None THEN NoId
                 ELSE FindActiveUserById(req[s].token.payload.userId)
       IN  /\ loc' = [loc EXCEPT ![s].userId = id,
                                 ![s].user = IF id = NoId THEN UserDefaults ELSE users[id]]
           /\ Finish(s, Resolved(id))
    /\ UNCHANGED <<users, stores, audit, req, nreq>>

\* the deactivation of a principal, done outside these services
Deactivate(u) ==
    /\ users[u].isActive
    /\ users' = [users EXCEPT ![u].isActive = FALSE]
    /\ UNCHANGED <<stores, audit, req, pc, loc, resp, nreq>>

AuthNext ==
    \/ \E s \in Slots :
        \/ ReceiveAuthRequest(s)
        \/ RegisterCustomerFind(s)
        \/ RegisterCustomerSave(s)
        \/ AuthMiddleware(s)
        \/ ValidateToken(s)
    \/ \E u \in UserIds : Deactivate(u)

AuthSpec == Init /\ [][AuthNext]_vars

----------------------------------------------------------------------------
(* AuthController.customerLogin / storeOwnerLogin and AuthService.login *)

InvalidCredentials == "Invalid credentials"
AccountDeactivated == "Account is deactivated"

\* the password every registration of the model sends, and another one; both
\* pass the route's length and letter-and-digit checks
RegisteredPassword == "passw0rd"
WrongPassword == "passw0rd2"

LoginRequests ==
    { [op |-> "login", email |-> e, password |-> p] :
        e \in Emails, p \in {RegisteredPassword, WrongPassword} }

LoginSpecRequests == CustomerRegisterRequests \cup LoginRequests

ReceiveLoginRequest(s) == ReceiveFrom(s, LoginSpecRequests)

\* bcrypt.compare(password, user.password): the hash is that of the password
\* the account was registered with
BcryptCompare(password, user) == user.hasPassword /\ password = RegisteredPassword

\* the catch block of customerLogin and storeOwnerLogin
LoginCatch(message) == Reply(401, message)

\* res.json({ message: "Login successful", token, user })
LoggedIn(token) ==
    [status |-> 200, message |-> "Login successful", param |-> None, token |-> token]

\* findOne by the lowercased e-mail; !user || !user.password
LoginFind(s) ==
    /\ pc[s] = "l_find"
    /\ LET id == FindUserByEmail(ToLowerCase(req[s].email))
       IN  IF id = NoId \/ ~users[id].hasPassword
           THEN /\ Finish(s, LoginCatch(InvalidCredentials))
                /\ UNCHANGED loc
           ELSE /\ loc' = [loc EXCEPT ![s].user = users[id], ![s].userId = id]
                /\ Goto(s, "l_save")
    /\ UNCHANGED <<users, stores, audit, req, nreq>>

\* after bcrypt.compare: the password and isActive checks on the loaded
\* entity, user.lastLoginAt = new Date(), userRepository.save(user) (the row
\* takes the values of the entity), generateToken
LoginSave(s) ==
    /\ pc[s] = "l_save"
    /\ LET user == loc[s].user
           id == loc[s].userId
       IN  IF ~BcryptCompare(req[s].password, user)
           THEN /\ Finish(s, LoginCatch(InvalidCredentials))
                /\ UNCHANGED users
           ELSE IF ~user.isActive
           THEN /\ Finish(s, LoginCatch(AccountDeactivated))
                /\ UNCHANGED users
           ELSE /\ users' = [users EXCEPT ![id] = [user EXCEPT !.lastLoginAt = Now]]
                /\ Finish(s, LoggedIn(generateToken(id, user)))
    /\ UNCHANGED <<stores, audit, req, loc, nreq>>

\* the identity-provider callback creates a principal without a password,
\* pending onboarding
OAuthSignup(e) ==
    /\ Len(users) < MaxRequests
    /\ EmailIndexAllows(ToLowerCase(e))
    /\ users' = Append(users, [ UserDefaults EXCEPT !.email = ToLowerCase(e),
                                   !.type = "google", !.isFullyRegistered = FALSE ])
    /\ UNCHANGED <<stores, audit, req, pc, loc, resp, nreq>>

LoginNext ==
    \/ \E s \in Slots :
        \/ ReceiveLoginRequest(s)
        \/ RegisterCustomerFind(s)
        \/ RegisterCustomerSave(s)
        \/ LoginFind(s)
        \/ LoginSave(s)
    \/ \E u \in UserIds : Deactivate(u)
    \/ \E e \in Emails : OAuthSignup(e)

LoginSpec == Init /\ [][LoginNext]_vars

----------------------------------------------------------------------------
(* POST /store/register over the bodies the route validators let through *)

Addresses ==
    [ street : {<<"a">>, <<" ">>, <<>>}, city : {<<"b">>, <<>>},
      postalCode : {<<"x">>, <<" ", " ">>},
      country : {<<"C", "A">>, <<"c", "a">>, <<"C", "A", "M">>} ]

BirthYears == { CurrentYear - MinAge - 1, CurrentYear - MinAge, CurrentYear - MinAge + 1 }

CountryFields ==
    [ siren : {<<>>, Rep("1", 9), Rep("1", 8), Rep("1", 8) \o <<"x">>},
      siret : {<<>>, Rep("2", 14), Rep("2", 15)},
      frenchBusinessType : {<<>>, <<"s", "a", "r", "l">>, <<"l", "l", "c">>},
      ein : {<<>>, <<"1", "2", "-">> \o Rep("3", 7), Rep("3", 10)} ]

RegistrationBodies ==
    { [ ValidStoreOwnerRequest(<<"A", "x">>, <<"C", " ", "M">>, FALSE) EXCEPT
          !.businessAddress = a, !.birthYear = y,
          !.acceptedTerms = c[1], !.acceptedPrivacyPolicy = c[2],
          !.acceptedDataProcessing = c[3], !.countrySpecificFields = f ] :
        a \in Addresses, y \in BirthYears,
        c \in BOOLEAN \X BOOLEAN \X BOOLEAN, f \in CountryFields }

\* one registration request has arrived at an empty directory
ValidationInit ==
    /\ users = <<>>
    /\ stores = <<>>
    /\ audit = EmptyBag
    /\ \E r \in RegistrationBodies : req = [s \in Slots |-> IF s = 1 THEN r ELSE NoReq]
    /\ pc = [s \in Slots |-> IF s = 1 THEN FirstStep("registerStoreOwner") ELSE "idle"]
    /\ loc = [s \in Slots |-> InitLoc]
    /\ resp = [s \in Slots |-> NoResp]
    /\ nreq = 1

ValidationNext ==
    \E s \in Slots :
        \/ RegisterStoreOwnerFind(s)
        \/ RegisterStoreOwnerSaveUser(s)
        \/ RegisterStoreOwnerSaveStore(s)
        \/ RegisterStoreOwnerAudit(s)

ValidationSpec == ValidationInit /\ [][ValidationNext]_vars

----------------------------------------------------------------------------
(* Properties *)

Done(s) == pc[s] = "done"

IsRegistration(s) == req[s].op \in {"registerCustomer", "registerStoreOwner"}

\* stored is raw with every character lowercased
IsLowercased(stored, raw) ==
    /\ Len(stored) = Len(raw)
    /\ \A i \in 1..Len(raw) : stored[i] = LowerChar(raw[i])

EmailTaken(raw) == \E u \in UserIds : IsLowercased(users[u].email, raw)

StoresOwnedBy(u) == { i \in StoreIds : stores[i].ownerId = u }

\* every request so far was served alone: the second handler never ran
SequentialRun == \A t \in Slots : t # 1 => pc[t] = "idle"

\* C1: registerStoreOwner writes the Principal and the Store atomically: after a
\* failed registerStoreOwner no Principal created by that call exists without
\* its Store.
C1_RegistrationAtomic ==
    \A s \in Slots :
        (Done(s) /\ req[s].op = "registerStoreOwner" /\ resp[s].status # 201
                 /\ loc[s].insU > 0)
            => StoresOwnedBy(loc[s].savedUser) # {}

\* C2: of two concurrent registrations whose e-mails are equal after
\* lowercasing, exactly one creates a Principal and the other one is answered
\* 409 "Email already registered", never another error.
C2_EmailRaceConflict ==
    /\ \A u, v \in UserIds : u # v => users[u].email # users[v].email
    /\ \A s \in Slots :
        (Done(s) /\ IsRegistration(s) /\ resp[s].status \notin {201, 400}
                 /\ loc[s].insU = 0 /\ EmailTaken(req[s].email))
            => resp[s] = Reply(409, EmailRegistered)

\* a registration reads the directory while the e-mail is taken
FindsEmailTaken(s) ==
    /\ pc[s] \in {"rc_find", "rso_find"}
    /\ pc'[s] # pc[s]
    /\ req[s].op = "registerStoreOwner" => StoreOwnerValidation(req[s]) = "ok"
    /\ EmailTaken(req[s].email)

\* C3: a registration called with an e-mail that, lowercased, is the stored
\* e-mail of an existing Principal fails with "Email already registered" (409)
\* and creates no Principal, no Store and no audit event; every stored e-mail
\* is lowercase.
C3_DuplicateEmailRejected ==
    /\ [][\A s \in Slots :
            FindsEmailTaken(s) =>
                /\ pc'[s] = "done"
                /\ resp'[s] = Reply(409, EmailRegistered)
                /\ users' = users /\ stores' = stores /\ audit' = audit]_vars
    /\ [](\A u \in UserIds : IsLowerCase(users[u].email))

C3_Witness ==
    \E s \in Slots :
        /\ Done(s) /\ IsRegistration(s)
        /\ resp[s] = Reply(409, EmailRegistered)
        /\ ~IsLowerCase(req[s].email)
        /\ EmailTaken(req[s].email)
        /\ loc[s].insU = 0

\* C4: of two store creations (registerStoreOwner, completeOnboarding) whose
\* names derive the same slug exactly one succeeds, and the one that fails on
\* the slug is answered with a 409 conflict, not with a generic internal error.
C4_SlugConflictDistinguished ==
    /\ \A i, j \in StoreIds :
        (i # j /\ stores[i].slug # NullSlug) => stores[i].slug # stores[j].slug
    /\ \A s \in Slots :
        (Done(s) /\ req[s].op \in {"registerStoreOwner", "completeOnboarding"}
                 /\ loc[s].savedUser # NoId /\ loc[s].savedStore = NoId
                 /\ \E i \in StoreIds : stores[i].slug = createSlug(req[s].storeName))
            => resp[s].status = 409

\* the rows a step adds are the rows its handlers count as inserted
InsertsAccounted ==
    /\ Len(users') - Len(users)
         = Cardinality({s \in Slots : loc'[s].insU = loc[s].insU + 1})
    /\ Len(stores') - Len(stores)
         = Cardinality({s \in Slots : loc'[s].insS = loc[s].insS + 1})
    /\ \A u \in UserIds : u \in 1..Len(users')
    /\ \A i \in StoreIds : i \in 1..Len(stores')

\* the Principal a registration inserts is the one it returns, and the Store
\* registerStoreOwner inserts is owned by the Principal the same call inserted
InsertsLinked ==
    \A s \in Slots :
        /\ (IsRegistration(s) /\ loc'[s].insU = loc[s].insU + 1)
            => /\ loc'[s].savedUser = Len(users')
               /\ IsLowercased(users'[Len(users')].email, req[s].email)
        /\ (req[s].op = "registerStoreOwner" /\ loc'[s].insS = loc[s].insS + 1)
            => /\ loc[s].insU = 1
               /\ loc'[s].savedStore = Len(stores')
               /\ stores'[Len(stores')].ownerId = loc[s].savedUser
               /\ loc[s].savedUser \in UserIds

\* C5: every successful registerStoreOwner call adds exactly one Principal and
\* exactly one Store whose ownerId is the new Principal's id; every successful
\* registerCustomer call adds exactly one Principal and no Store.
C5_RegistrationCreates ==
    /\ [](\A s \in Slots :
            (Done(s) /\ resp[s].status = 201) =>
                /\ req[s].op = "registerStoreOwner"
                     => loc[s].insU = 1 /\ loc[s].insS = 1
                /\ req[s].op = "registerCustomer"
                     => loc[s].insU = 1 /\ loc[s].insS = 0)
    /\ [][InsertsAccounted /\ InsertsLinked]_vars

C5_Witness ==
    /\ \E s \in Slots :
        /\ Done(s) /\ req[s].op = "registerStoreOwner" /\ resp[s].status = 201
        /\ stores[loc[s].savedStore].ownerId = loc[s].savedUser
    /\ \E s \in Slots :
        /\ Done(s) /\ req[s].op = "registerCustomer" /\ resp[s].status = 201
        /\ StoresOwnedBy(loc[s].savedUser) = {}

\* C6: when an audit-log write fails after the Principal and the Store of a
\* registerStoreOwner call are persisted, the request still succeeds with 201.
C6_AuditFailureTolerated ==
    \A s \in Slots :
        (Done(s) /\ req[s].op = "registerStoreOwner"
                 /\ loc[s].insU = 1 /\ loc[s].insS = 1)
            => resp[s].status = 201

UserEvent(u) == [kind |-> "user_registration", subject |-> u, consent |-> None]
StoreEvent(i) == [kind |-> "store_registration", subject |-> i, consent |-> None]

ConsentFlag(r, consent) ==
    CASE consent = "terms" -> r.acceptedTerms
      [] consent = "privacy" -> r.acceptedPrivacyPolicy
      [] consent = "data_processing" -> r.acceptedDataProcessing
      [] consent = "marketing" -> r.marketingConsent

ConsentKinds == {"terms", "privacy", "data_processing", "marketing"}

\* the events about Principal u
EventsAbout(u) ==
    { e \in BagToSet(audit) : e.kind \in {"user_registration", "consent"} /\ e.subject = u }

OnboardingSavesUser(s) ==
    /\ req[s].op = "completeOnboarding"
    /\ pc[s] = "co_saveUser" /\ pc'[s] = "co_saveStore"
    /\ loc[s].user.role = CUSTOMER

\* completeOnboarding answers 200
OnboardingSucceeds(s) ==
    /\ req[s].op = "completeOnboarding"
    /\ pc[s] # "done" /\ pc'[s] = "done" /\ resp'[s].status = 200

C9_OnboardingAtomic ==
    \A s \in Slots :
        (Done(s) /\ req[s].op = "completeOnboarding" /\ resp[s].status # 200
                 /\ loc[s].savedUser # NoId /\ loc[s].savedStore = NoId)
            => users[req[s].userId] = loc[s].user

\* C10: in every reachable state each Principal is the owner of at most one
\* Store.
C10_AtMostOneStore ==
    \A u \in UserIds : Cardinality(StoresOwnedBy(u)) <= 1

\* C11: every persisted Store has an ownerId that is the id of an existing
\* Principal: registerStoreOwner, completeOnboarding and createStore never leave
\* a committed Store whose owner is absent or unknown, and a createStore for an
\* unknown ownerId ends rolled back, with no Store added.
C11_StoreOwnerExists ==
    /\ \A i \in StoreIds : stores[i].ownerId # NoId /\ stores[i].ownerId \in UserIds
    /\ \A s \in Slots :
        (Done(s) /\ req[s].op = "createStore" /\ req[s].ownerId \notin UserIds)
            => /\ resp[s].status = 500
               /\ loc[s].tx = "rolledback"
               /\ loc[s].insS = 0 /\ loc[s].savedStore = NoId

C11_Witness ==
    /\ \E s \in Slots :
        /\ Done(s) /\ req[s].op = "createStore" /\ req[s].ownerId = UnknownId
        /\ loc[s].tx = "rolledback"
    /\ \E s \in Slots :
        /\ Done(s) /\ req[s].op \in {"registerStoreOwner", "completeOnboarding", "createStore"}
        /\ loc[s].insS = 1
        /\ stores[loc[s].savedStore].ownerId \in UserIds

\* C12: every Store, whichever operation created it, has a
\* documentVerificationStatus holding all six document kinds, each "pending".
C12_DocumentsPending ==
    \A i \in StoreIds :
        /\ DOMAIN stores[i].documentVerificationStatus = DocKinds
        /\ \A k \in DocKinds : stores[i].documentVerificationStatus[k] = "pending"

\* the timestamp of a consent is set exactly when its flag is true
ConsentsStamped(user) ==
    /\ user.acceptedTerms = TRUE <=> user.termsAcceptedAt \notin {None, InvalidDate}
    /\ user.acceptedPrivacyPolicy = TRUE
         <=> user.privacyPolicyAcceptedAt \notin {None, InvalidDate}
    /\ user.acceptedDataProcessing = TRUE
         <=> user.dataProcessingAcceptedAt \notin {None, InvalidDate}
    /\ user.marketingConsent = TRUE
         <=> user.marketingConsentGivenAt \notin {None, InvalidDate}
    /\ InvalidDate \notin ConsentStamps(user)

CreatedNothing(s) ==
    /\ loc[s].insU = 0 /\ loc[s].insS = 0 /\ loc[s].auditIdx = 0
    /\ users = <<>> /\ stores = <<>> /\ audit = EmptyBag

\* two uppercase letters
IsIsoCountry(str) == Len(str) = 2 /\ \A i \in 1..Len(str) : str[i] \in UpperChars

AddressAccepted(r) ==
    /\ ~IsBlank(r.businessAddress.street) /\ ~IsBlank(r.businessAddress.city)
    /\ ~IsBlank(r.businessAddress.postalCode)
    /\ IsIsoCountry(r.businessAddress.country)

ConsentsGiven(r) ==
    r.acceptedTerms = TRUE /\ r.acceptedPrivacyPolicy = TRUE
        /\ r.acceptedDataProcessing = TRUE

\* C15: store-owner registration is rejected, creating no Principal or Store,
\* whenever currentYear - birthYear < 18, and is not rejected on age grounds
\* when currentYear - birthYear = 18; the controller's check and the service's
\* check agree on every date of birth.
C15_AgeBoundary ==
    \A s \in Slots :
        req[s].op = "registerStoreOwner" =>
            /\ CurrentYear - req[s].birthYear < 18 =>
                /\ CreatedNothing(s)
                /\ Done(s) => resp[s].status = 400
                /\ pc[s] \in {"rso_find", "done"}
            /\ CurrentYear - req[s].birthYear = 18 =>
                /\ resp[s].param # "ownerDateOfBirth" /\ resp[s].message # Underage
                /\ (AddressAccepted(req[s]) /\ ConsentsGiven(req[s])
                        /\ CountryFieldsValidation(req[s].countrySpecificFields) = "ok"
                        /\ Done(s))
                    => resp[s].status \notin {400, 409}
            /\ ControllerRejectsAge(req[s]) <=> ServiceRejectsAge(req[s])
            /\ resp[s].message # Underage

C15_Witness ==
    \E s \in Slots :
        /\ Done(s) /\ req[s].op = "registerStoreOwner"
        /\ CurrentYear - req[s].birthYear = 17
        /\ AddressAccepted(req[s]) /\ ConsentsGiven(req[s])
        /\ resp[s] = ValidationFailed("ownerDateOfBirth")
        /\ CreatedNothing(s)

FirstMissingConsent(r) ==
    IF r.acceptedTerms # TRUE THEN "acceptedTerms"
    ELSE IF r.acceptedPrivacyPolicy # TRUE THEN "acceptedPrivacyPolicy"
    ELSE "acceptedDataProcessing"

BadSiren(f) == f.siren # <<>> /\ ~IsDigits(f.siren, 9)
BadSiret(f) == f.siret # <<>> /\ ~IsDigits(f.siret, 14)
BadBusinessType(f) ==
    f.frenchBusinessType # <<>> /\ f.frenchBusinessType \notin FrenchBusinessTypes
BadEin(f) == f.ein # <<>> /\ ~IsEin(f.ein)

\* the parameters C17 is about, in the order of the controller's checks, each
\* with whether the request fails on it
FieldChecks(r) ==
    << <<"businessAddress.street", IsBlank(r.businessAddress.street)>>,
       <<"businessAddress.city", IsBlank(r.businessAddress.city)>>,
       <<"businessAddress.postalCode", IsBlank(r.businessAddress.postalCode)>>,
       <<"businessAddress.country", ~IsIsoCountry(r.businessAddress.country)>>,
       <<"ownerDateOfBirth", CurrentYear - r.birthYear < 18>>,
       <<"acceptedTerms", r.acceptedTerms # TRUE>>,
       <<"acceptedPrivacyPolicy", r.acceptedPrivacyPolicy # TRUE>>,
       <<"acceptedDataProcessing", r.acceptedDataProcessing # TRUE>>,
       <<"countrySpecificFields.siren", BadSiren(r.countrySpecificFields)>>,
       <<"countrySpecificFields.siret", BadSiret(r.countrySpecificFields)>>,
       <<"countrySpecificFields.frenchBusinessType",
         BadBusinessType(r.countrySpecificFields)>>,
       <<"countrySpecificFields.ein", BadEin(r.countrySpecificFields)>> >>

\* the smallest of a non-empty set of positions
First(S) == CHOOSE i \in S : \A j \in S : i <= j

\* the positions of the address checks and of the identifier checks
AddressOrIdentifierChecks == {1, 2, 3, 4, 9, 10, 11, 12}

\* C17: a store-owner registration is answered 400 with exactly one
\* field-level error naming the first failing parameter, and
\* AuthService.registerStoreOwner is never invoked, when the business address
\* has an empty street, city or postal code, a country that is not two
\* uppercase letters, or a present siren, siret, frenchBusinessType or ein that
\* does not match its format; absent identifiers are never a reason for
\* rejection.
C17_FieldValidation ==
    \A s \in Slots :
        req[s].op = "registerStoreOwner" =>
            LET checks == FieldChecks(req[s])
                failed == { i \in 1..Len(checks) : checks[i][2] }
                param == IF failed = {} THEN "ok" ELSE checks[First(failed)][1]
            IN  /\ failed \cap AddressOrIdentifierChecks # {} =>
                    /\ CreatedNothing(s)
                    /\ pc[s] \in {"rso_find", "done"}
                    /\ Done(s) => resp[s] = ValidationFailed(param)
                /\ (failed = {} /\ Done(s)) => resp[s].status # 400
                /\ (Done(s) /\ resp[s].status = 400) =>
                    /\ resp[s].param \notin {"ok", None}
                    /\ resp[s].param = param

C17_Witness ==
    \E s \in Slots :
        /\ Done(s) /\ req[s].op = "registerStoreOwner"
        /\ req[s].countrySpecificFields.siren = Rep("1", 9)
        /\ req[s].countrySpecificFields.siret = <<>>
        /\ req[s].countrySpecificFields.ein = Rep("3", 10)
        /\ resp[s] = ValidationFailed("countrySpecificFields.ein")
        /\ CreatedNothing(s)

\* C13: in every reachable state no two Stores share a slug, and the slug of a
\* Store never changes after the Store is created, for any sequence of
\* updateStore, toggleHolidayMode and deleteStore calls.
C13_SlugUniqueImmutable ==
    /\ [](\A i, j \in StoreIds :
            (i # j /\ stores[i].slug # NullSlug) => stores[i].slug # stores[j].slug)
    /\ [][\A i \in StoreIds : stores'[i].slug = stores[i].slug]_vars

\* the token is as it was signed and its seven days have not passed
Verifies(token) == token.form = "intact" /\ token.age < 7

\* the token is as it was signed and its seven days have passed
ExpiredWellFormed(token) == token.form = "intact" /\ token.age >= 7

\* authMiddleware handles the request of slot s in this step
MiddlewareRuns(s) == req[s].op = "me" /\ pc[s] = "am_verify" /\ pc'[s] # pc[s]

\* the header is a bearer header whose token verifies and names an active
\* Principal
Admitted(s) ==
    /\ req[s].scheme = "Bearer "
    /\ Verifies(req[s].token)
    /\ req[s].token.payload.userId \in UserIds
    /\ users[req[s].token.payload.userId].isActive

C19_ExpiredDistinguished ==
    \A s \in Slots :
        (Done(s) /\ req[s].op \in {"me", "validateToken"}
                 /\ ExpiredWellFormed(req[s].token)) =>
            /\ (req[s].op = "me" /\ req[s].scheme = "Bearer ")
                => resp[s] = Reply(401, "Unauthorized - Token expired")
            /\ req[s].op = "validateToken" => resp[s].message # "null"

\* validateToken returns in this step, for a token signed less than seven
\* days ago
ValidatesFresh(s) ==
    /\ req[s].op = "validateToken" /\ pc[s] = "vt_verify" /\ pc'[s] = "done"
    /\ Verifies(req[s].token)

\* C20: for every existing active Principal p, validateToken(generateToken(p))
\* evaluated before the seven-day expiry resolves to the Principal whose id is
\* p.id; it resolves to nothing when p has been deactivated or does not exist.
C20_TokenRoundTrip ==
    [][\A s \in Slots :
        ValidatesFresh(s) =>
            LET p == req[s].token.payload.userId
            IN  IF p \in UserIds /\ users[p].isActive
                THEN /\ resp'[s].message = "User"
                     /\ loc'[s].userId = p
                     /\ loc'[s].user = users[p]
                ELSE /\ resp'[s].message = "null"
                     /\ loc'[s].userId = NoId]_vars

C20_Witness ==
    \E s \in Slots :
        /\ Done(s) /\ req[s].op = "validateToken"
        /\ req[s].token.form = "intact" /\ req[s].token.age = 6
        /\ req[s].token.payload.userId \in UserIds
        /\ req[s].token.payload.email = users[loc[s].userId].email
        /\ loc[s].userId = req[s].token.payload.userId
        /\ resp[s].message = "User"

----------------------------------------------------------------------------
(* login *)

\* a login that was answered with anything but 200
FailedLogin(s) == Done(s) /\ req[s].op = "login" /\ resp[s].status # 200

\* C21: the response of a failed login (status and body) is the same whether
\* the e-mail is unknown, the password is wrong or the account is deactivated
\* and the password right: every failed login is answered as the login of an
\* unknown e-mail is, 401 "Invalid credentials".
C21_LoginFailuresIndistinguishable ==
    \A s \in Slots : FailedLogin(s) => resp[s] = LoginCatch(InvalidCredentials)

\* the handler of a login ends in this step
LoginEnds(s) == req[s].op = "login" /\ pc[s] # "done" /\ pc'[s] = "done"

\* C30: login returns a token only when a Principal with the lowercased e-mail
\* exists, has a stored password, the password matches and isActive is true,
\* and then the only state change is that Principal's lastLoginAt; a failed
\* login changes no stored state and returns no token.
C30_LoginFrame ==
    [][\A s \in Slots :
        LoginEnds(s) =>
            /\ stores' = stores /\ audit' = audit
            /\ IF resp'[s].status = 200
               THEN LET id == FindUserByEmail(ToLowerCase(req[s].email))
                    IN  /\ id # NoId
                        /\ users[id].hasPassword
                        /\ req[s].password = RegisteredPassword
                        /\ users[id].isActive
                        /\ resp'[s].token.userId = id
                        /\ users' = [users EXCEPT ![id].lastLoginAt = users'[id].lastLoginAt]
               ELSE /\ resp'[s].token = NoToken
                    /\ users' = users]_vars

----------------------------------------------------------------------------
(* registerStoreOwner: the flags of the new Principal *)

\* registerStoreOwner inserts its user row in this step
StoreOwnerInserted(s) ==
    /\ req[s].op = "registerStoreOwner"
    /\ pc[s] = "rso_saveUser" /\ pc'[s] = "rso_saveStore"

\* C22: every Principal with role=store_owner created by registerStoreOwner has
\* isFullyRegistered=true at creation.
C22_DirectPathFullyRegistered ==
    [][\A s \in Slots :
        StoreOwnerInserted(s) =>
            /\ Len(users') = Len(users) + 1
            /\ users'[Len(users')].role = STORE_OWNER
            /\ users'[Len(users')].isFullyRegistered = TRUE]_vars

----------------------------------------------------------------------------
(* Soft deletion *)

\* deleteStore saves its entity and answers 200 in this step
DeleteStoreSucceeds(s) ==
    /\ req[s].op = "deleteStore"
    /\ pc[s] = "ds_save" /\ pc'[s] = "done" /\ resp'[s].status = 200

\* C23: no operation removes a Store or a Principal (the sets of stored ids
\* only grow), and a deleteStore changes nothing except the isActive of its
\* target, which becomes false.
C23_SoftDeleteOnly ==
    [][/\ Len(users') >= Len(users)
       /\ Len(stores') >= Len(stores)
       /\ \A s \in Slots :
            DeleteStoreSucceeds(s) =>
                /\ stores' = [stores EXCEPT ![req[s].id].isActive = FALSE]
                /\ users' = users /\ audit' = audit]_vars

----------------------------------------------------------------------------
(* The transaction of createStore *)

\* a step of a createStore handler
CreateStoreSteps(s) == req[s].op = "createStore" /\ pc'[s] # pc[s]

----------------------------------------------------------------------------
(* completeOnboarding: the client errors *)

\* a completeOnboarding that has ended for a principal id the directory lacks
OnboardingOfUnknown(s) ==
    Done(s) /\ req[s].op = "completeOnboarding" /\ req[s].userId \notin UserIds

\* a completeOnboarding that has ended for a body with a required field missing
OnboardingIncomplete(s) ==
    /\ Done(s) /\ req[s].op = "completeOnboarding"
    /\ req[s].userId \in UserIds /\ MissingOnboardingFields(req[s])

\* C25: completeOnboarding fails with UserNotFound, a 404, when the principal
\* id does not exist, and with MissingRequiredFields, a 400, when phoneNumber,
\* storeName, siret, storeAddress or a true acceptedCGU is missing; in both
\* cases no Principal is modified and no Store is created.
C25_OnboardingClientErrors ==
    \A s \in Slots :
        /\ OnboardingOfUnknown(s) =>
            /\ resp[s] = Reply(404, UserNotFound)
            /\ loc[s].savedUser = NoId /\ loc[s].insS = 0
        /\ OnboardingIncomplete(s) =>
            /\ resp[s] = Reply(400, "Missing required fields")
            /\ loc[s].savedUser = NoId /\ loc[s].insS = 0

----------------------------------------------------------------------------
(* The 500 responses of the registration and onboarding handlers *)

\* the messages of the errors raised below the handlers
InternalErrors ==
    { DuplicateEmail, DuplicateSlug, OwnerKeyViolation, AuditWriteFailed,
      InvalidTimestamp, UserNotFound }

\* a registration or onboarding that was answered 500
InternalFailure(s) ==
    /\ Done(s) /\ resp[s].status = 500
    /\ req[s].op \in {"registerCustomer", "registerStoreOwner", "completeOnboarding"}

\* C26: the body of a 500 answer of customerRegister, storeOwnerRegister and
\* completeOnboarding is the same whatever failed inside: it is never the
\* message of the internal error, and two such answers carry the same message.
C26_OpaqueInternalError ==
    \A s \in Slots :
        InternalFailure(s) =>
            /\ resp[s].message \notin InternalErrors
            /\ \A t \in Slots : InternalFailure(t) => resp[t].message = resp[s].message

----------------------------------------------------------------------------
(* The store name pre-check and the unique slug *)

\* checkStoreNameAvailability has answered with a result
CheckAnswered(s) == Done(s) /\ req[s].op = "checkStoreName" /\ resp[s].status = 200

\* the handler of slot t is a registration or onboarding that inserted its store
CreatedUnderName(t) ==
    /\ req[t].op \in {"registerStoreOwner", "completeOnboarding"}
    /\ loc[t].insS = 1

\* C27: checkStoreNameAvailability(name) returns the slug registerStoreOwner
\* and completeOnboarding store for that name, and available=true exactly when
\* no Store record, active or deactivated, has that slug at the time of the
\* check; a creation after an available=true answer can still be refused, and
\* no two Stores ever have the same slug.
C27_NameCheckAndSlugIndex ==
    /\ [](\A i, j \in StoreIds :
            (i # j /\ stores[i].slug # NullSlug) => stores[i].slug # stores[j].slug)
    /\ [](\A s, t \in Slots :
            (CheckAnswered(s) /\ CreatedUnderName(t)
                /\ req[t].storeName = req[s].storeName)
                    => stores[loc[t].savedStore].slug = loc[s].slug)
    /\ [][\A s \in Slots :
            (req[s].op = "checkStoreName" /\ pc[s] = "cn_find"
                /\ resp'[s].status = 200)
                    => loc'[s].available =
                        (\A i \in StoreIds : stores[i].slug # loc'[s].slug)]_vars

\* a name was reported available, another creation took its slug, and the
\* creation that followed the answer was refused by the index
C27_Witness ==
    \E s, t \in Slots :
        /\ CheckAnswered(s) /\ loc[s].available
        /\ Done(t) /\ req[t].op = "completeOnboarding"
        /\ createSlug(req[t].storeName) = loc[s].slug
        /\ resp[t] = OnboardingCatch(DuplicateSlug) /\ loc[t].insS = 0
        /\ Cardinality({ i \in StoreIds : stores[i].slug = loc[s].slug }) = 1

----------------------------------------------------------------------------
(* Holiday mode *)

\* toggleHolidayMode saves its entity and answers 200 in this step
ToggleSucceeds(s) ==
    /\ req[s].op = "toggleHolidayMode"
    /\ pc[s] = "th_save" /\ pc'[s] = "done" /\ resp'[s].status = 200

\* C28: toggleHolidayMode on an active Store flips isHoliday, sets
\* holidayMessage to the supplied message when the new isHoliday is true and
\* clears it when the new isHoliday is false, and changes no other field of the
\* Store (so two toggles in a row restore isHoliday, and a store that is not on
\* holiday after a toggle has no holidayMessage).
C28_HolidayToggle ==
    [][\A s \in Slots :
        ToggleSucceeds(s) =>
            LET id == req[s].id
                on == ~stores[id].isHoliday
            IN  stores' = [stores EXCEPT
                    ![id].isHoliday = on,
                    ![id].holidayMessage = IF on THEN req[s].holidayMessage ELSE None]]_vars

----------------------------------------------------------------------------
(* After deleteStore *)

\* an operation on a store id reads the table while the store is deleted
ReadsDeletedStore(s) ==
    /\ req[s].op \in {"getStoreById", "updateStore", "toggleHolidayMode", "deleteStore"}
    /\ pc[s] \in {"gs_find", "us_find", "th_find", "ds_find"} /\ pc'[s] # pc[s]
    /\ req[s].id \in StoreIds /\ ~stores[req[s].id].isActive

\* C29: once deleteStore(id) has succeeded, every later getStoreById,
\* updateStore, toggleHolidayMode and deleteStore for that id is answered 404
\* "Store not found" and leaves the Store record unchanged, and no operation
\* of the stores service sets isActive back to true.
C29_DeletedStaysDeleted ==
    [][/\ \A s \in Slots :
            ReadsDeletedStore(s) =>
                /\ pc'[s] = "done" /\ resp'[s] = Reply(404, StoreNotFound)
                /\ stores' = stores
       /\ \A i \in StoreIds : ~stores[i].isActive => ~stores'[i].isActive]_vars

====
